---------------------------- MODULE Spec2Model ----------------------------
(***************************************************************************)
(* Telescope command-queue subsystem of MoonPanoramaMaker                  *)
(* (Source/telescope.py): the worker thread OperateTelescopeASCOM.run,     *)
(* which serves the list `instructions`, and the facade class Telescope,   *)
(* whose methods put instruction templates into that list from the caller  *)
(* thread.                                                                 *)
(*                                                                         *)
(* Angles.  Radians are counted in units of half a degree (PI = 360        *)
(* units), the driver's declination in degrees and its right ascension in  *)
(* hours, so that degrees(), radians() and the hour conversion are exact   *)
(* on the grid of whole hours and whole degrees the inputs are drawn from. *)
(* Floating point rounding is not modelled.                                *)
(***************************************************************************)
EXTENDS Integers, Sequences, FiniteSets, TLC

(***************************************************************************)
(* Bounds of the model.                                                    *)
(***************************************************************************)
MaxCalls == 2
MaxJogCalls == 3
MaxSlewCalls == 3
MaxCalCalls == 3
MaxInitCalls == 2
MaxGuideCalls == 4
MaxTermCalls == 3
MaxAsyncCalls == 2
MaxCorrCalls == 3
MaxWrapCalls == 2
MaxPairCalls == 2

MaxFaultCalls == 3

MaxLookupCalls == 2

MaxRecalCalls == 5

MaxMapCalls == 2

MaxMotionCalls == 3
MaxTime == 2
TelLimit == 4
PollingTimeOutCount == 2

(***************************************************************************)
(* Program constants.                                                      *)
(***************************************************************************)
PI == 360
CalibratePulseLength == 1000
PollingIntervalMs == 100
GuidingIntervalMs == 200
LookupPrecision == 0
SentinelRect == 25
SentinelDecl == 91

(***************************************************************************)
(* math.degrees, math.radians and the hour conversions used at the driver  *)
(* boundary.                                                               *)
(***************************************************************************)
Abs(x) == IF x < 0 THEN -x ELSE x

Sign(x) == IF x > 0 THEN 1 ELSE IF x < 0 THEN -1 ELSE 0

Degrees(r) == r \div 2

Radians(d) == d * 2

\* rect = (degrees(ra) / 15.) % 24.
RectOf(ra) == (Degrees(ra) \div 15) % 24

\* radians(rect * 15.)
RaOfRect(rect) == Radians(rect * 15)

(***************************************************************************)
(* Instruction templates: one object per kind, identified by its name.     *)
(***************************************************************************)
Dirs == {"north", "south", "east", "west"}

SLEW == "slew to"
LOOKUP == "lookup tel position"
CALIBRATE == "calibrate"
START_GUIDING == "start guiding"
CONTINUE_GUIDING == "continue guiding"
STOP_GUIDING == "stop guiding"
PULSE_CORRECTION == "pulse correction"
TERMINATE == "terminate"

StartMoving(d) ==
    CASE d = "north" -> "start moving north"
      [] d = "south" -> "start moving south"
      [] d = "east" -> "start moving east"
      [] d = "west" -> "start moving west"

StopMoving(d) ==
    CASE d = "north" -> "stop moving north"
      [] d = "south" -> "stop moving south"
      [] d = "east" -> "stop moving east"
      [] d = "west" -> "stop moving west"

StartMovingNames == {StartMoving(d) : d \in Dirs}
StopMovingNames == {StopMoving(d) : d \in Dirs}

\* The kinds that carry a 'finished' field.
FinishedNames ==
    {LOOKUP, CALIBRATE, STOP_GUIDING, PULSE_CORRECTION} \cup StopMovingNames

\* Default directions for the ASCOM instruction PulseGuide.
DefaultDirection == [north |-> 0, south |-> 1, east |-> 2, west |-> 3]

(***************************************************************************)
(* The instruction list.  list.insert(0, x), list.append(x), list.pop().   *)
(***************************************************************************)
\* Faulty variant, for sensitivity runs: the instruction is put at the end of
\* the list, where the worker pops.
InsertAtEnd(q, k) == Append(q, k)

InsertHead(q, x) == <<x>> \o q

AppendTail(q, x) == Append(q, x)

\* Faulty variant, for sensitivity runs: the item at index 0 is the one executed.
PopItemAtHead(q) == q[1]

PopItem(q) == q[Len(q)]

PopRest(q) == SubSeq(q, 1, Len(q) - 1)

Count(q, name) == Cardinality({i \in 1..Len(q) : q[i] = name})

\* Faulty variant, for sensitivity runs: the item at index 0 is removed,
\* whatever its name.
RemoveAtIndexZero(q, name) == Tail(q)

\* list.remove(x): removes the first element equal to x.
RemoveFirst(q, name) ==
    LET first == CHOOSE i \in 1..Len(q) :
                     q[i] = name /\ \A j \in 1..(i - 1) : q[j] # name
    IN  SubSeq(q, 1, first - 1) \o SubSeq(q, first + 1, Len(q))

\* remove_instruction: "for inst in self.instructions: if same name:
\* self.instructions.remove(inst)".  The for loop walks the list by index
\* while the list shrinks under it; i is the 1-based index of the next item.
RECURSIVE RemoveLoop(_, _, _)
RemoveLoop(q, i, name) ==
    IF i > Len(q) THEN q
    ELSE IF q[i] = name THEN RemoveLoop(RemoveFirst(q, name), i + 1, name)
    ELSE RemoveLoop(q, i + 1, name)

\* Faulty variant, for sensitivity runs: the walk misses the first item of the list.
RemoveInstructionSkipFirst(q, name) == RemoveLoop(q, 2, name)

RemoveInstruction(q, name) == RemoveLoop(q, 1, name)

(***************************************************************************)
(* State.                                                                  *)
(***************************************************************************)
VARIABLES
    instructions,           \* self.instructions, index 1 is list index 0
    finished,               \* the 'finished' field of each template
    fields,                 \* the parameter and result fields of the templates
    initialized,            \* self.initialized
    initialization_error,   \* self.initialization_error
    wpc,                    \* worker: "start", "loop", "exec", "ended", "failed", "crashed"
    cur,                    \* worker: the instruction popped and in execution
    direction,              \* self.direction_north/south/east/west
    guide,                  \* run()'s locals of the guiding chain
    look,                   \* run()'s locals rect, decl of the look-up loop
    tel,                    \* the mount: true position ra (hours), de (degrees)
    mount,                  \* the mount: wiring orientation and read-back bias
    now,                    \* wall clock, whole seconds (time.mktime)
    fpc,                    \* Telescope.__init__: position and outcome
    polls,                  \* Telescope.__init__: iterations of the polling loop
    cpc,                    \* caller: "idle", "insert", "lookup", "wait", "join"
    call,                   \* caller: the facade call in progress
    calls,                  \* caller: number of facade calls it may still begin
    gui,                    \* a second calling thread: its position and instruction
    readout_correction,     \* self.readout_correction_ra/de
    guiding_active,         \* self.guiding_active
    result,                 \* value returned by the last look-up call
    obs                     \* observation record: history of calls and driver pulses

workerVars == <<initialized, initialization_error, wpc, cur, direction, guide, look>>
sharedVars == <<instructions, finished, fields>>
mountVars == <<tel, mount>>
initVars == <<fpc, polls>>
callerVars == <<cpc, call, calls, gui, readout_correction, guiding_active, result>>
vars == <<workerVars, sharedVars, mountVars, now, initVars, callerVars, obs>>

(***************************************************************************)
(* The mount behind the driver.  Reads report the true position plus the   *)
(* mount's fixed read-back bias.  PulseGuide(code, duration) moves one     *)
(* axis by one grid step: code 0/1 the declination, code 2/3 the right     *)
(* ascension, in the sense given by the wiring orientation; a pulse of     *)
(* duration 0 and a pulse against the limit of travel do not move it.      *)
(***************************************************************************)
RightAscension(t) == t.ra + mount.biasRa

Declination(t) == t.de + mount.biasDe

PulseAxis(code) == IF code \in {0, 1} THEN "de" ELSE "ra"

Within(x, lo, hi) == lo <= x /\ x <= hi

MountAfterPulse(t, code, duration) ==
    LET step == IF duration > 0 THEN 1 ELSE 0
        sense == IF code \in {0, 2} THEN step ELSE -step
        dRa == IF mount.raFlip THEN -sense ELSE sense
        dDe == IF mount.deFlip THEN -sense ELSE sense
    IN  IF PulseAxis(code) = "ra"
        THEN [t EXCEPT !.ra = IF Within(t.ra + dRa, 0, 2 * TelLimit)
                               THEN t.ra + dRa ELSE t.ra]
        ELSE [t EXCEPT !.de = IF Within(t.de + dDe, -TelLimit, TelLimit)
                               THEN t.de + dDe ELSE t.de]

\* SlewToCoordinates(rect, decl)
MountAfterSlew(t, rect, decl) == [t EXCEPT !.ra = rect, !.de = decl]

(***************************************************************************)
(* Observation record (history only, read by no action's guard): what the  *)
(* properties below refer to.                                              *)
(*   pending[k] the facade has put an instruction of kind k into the list   *)
(*              and the worker has not completed one of that kind since    *)
(*   hist       "pairs" while the calls made so far are start_guiding /    *)
(*              stop_guiding pairs, "started" inside such a pair           *)
(*   h1, h2     the last and the last but one facade call that returned    *)
(*              (its name)                                                 *)
(*   d1, d2     the Direction Mapping when h1, h2 returned                 *)
(*   jog[d]     moves: move_d calls since the last stop_move_d returned    *)
(*              (counted to 2); dup: two of them were ever outstanding;    *)
(*              placed: a 'stop moving d' was put into the list since the  *)
(*              last move_d; after: jog pulses toward d since then         *)
(*   cal        the last execution of 'calibrate': mapping before it and   *)
(*              the four positions read                                    *)
(*   glog       the last execution of 'continue guiding': the locals of    *)
(*              the chain, the clock, the mount's position before it and   *)
(*              the driver codes of the pulses issued                      *)
(*   pc         the driver pulses issued for 'pulse correction' since the  *)
(*              last pulse_correction call began                           *)
(*   target     the arguments of the last slew_to call                     *)
(*   correction the arguments of the last pulse_correction call            *)
(*   polled     the error text Telescope.__init__ read at its last poll    *)
(*   raised     the text of the exception Telescope.__init__ raised        *)
(*   atRaise    the worker's two flags at the moment it raised             *)
(*   older      for the instruction a blocking call has put at index 0 and *)
(*              waits for: at, the number of instructions in the list      *)
(*              when it was put there; left, how many of them the worker   *)
(*              has not popped since                                       *)
(***************************************************************************)
ServedNames == FinishedNames \cup {SLEW}

\* The kinds a blocking call puts at index 0 and waits for.
HeadWaitedNames == {LOOKUP, CALIBRATE, STOP_GUIDING}

NoCall == [op |-> "none", instr |-> "none", a |-> 0, b |-> 0]

NoGuiCall == [pc |-> "idle", instr |-> "none"]

NoJog == [moves |-> 0, dup |-> FALSE, placed |-> FALSE, after |-> 0]

NoCal == [ran |-> FALSE, before |-> DefaultDirection,
          ra_begin |-> 0, ra_end |-> 0, de_begin |-> 0, de_end |-> 0]

NoGuide == [start_time |-> 0, start_ra |-> 0, start_de |-> 0, rate_ra |-> 0,
            rate_de |-> 0, direction_ra |-> 3, direction_de |-> 1]

NoGuideLog == [ran |-> FALSE, g |-> NoGuide, time |-> 0,
               tel |-> [ra |-> 0, de |-> 0], pulses |-> <<>>]

InitObs ==
    [pending |-> [k \in ServedNames |-> FALSE],
     hist |-> "pairs",
     h1 |-> "none", h2 |-> "none",
     d1 |-> DefaultDirection, d2 |-> DefaultDirection,
     jog |-> [d \in Dirs |-> NoJog],
     cal |-> NoCal,
     glog |-> NoGuideLog,
     pc |-> <<>>,
     target |-> [ra |-> 0, de |-> 0],
     correction |-> [index |-> 0, pulse_length |-> 0],
     polled |-> "",
     raised |-> "",
     atRaise |-> [initialized |-> FALSE, error |-> ""],
     older |-> [at |-> 0, left |-> 0],
     gown |-> 0,
     gsince |-> FALSE]

Min(a, b) == IF a < b THEN a ELSE b

\* The worker has executed an instruction of kind k.
ObsServed(o, k) ==
    [o EXCEPT !.pending[k] = FALSE,
              !.gsince = @ \/ (gui.pc \in {"insert", "wait"} /\ gui.instr = k)]

\* The worker has issued a jog pulse toward d.
ObsJogPulse(o, d) ==
    [o EXCEPT !.jog[d].after = IF o.jog[d].placed THEN Min(@ + 1, 2) ELSE @]

\* The facade puts instruction k of call c into the list.
ObsInsert(o, c, k) ==
    LET o1 == IF k \in ServedNames THEN [o EXCEPT !.pending[k] = TRUE] ELSE o
        o2 == IF c.op = "move"
              THEN [o1 EXCEPT !.jog[c.a] =
                        [moves |-> Min(o.jog[c.a].moves + 1, 2),
                         dup |-> o.jog[c.a].dup \/ o.jog[c.a].moves >= 1,
                         placed |-> FALSE, after |-> 0]]
              ELSE IF c.op = "stop_move"
              THEN [o1 EXCEPT !.jog[c.a].placed = TRUE, !.jog[c.a].after = 0]
              ELSE o1
        o3 == IF k \in HeadWaitedNames
              THEN [o2 EXCEPT !.older = [at |-> Len(instructions),
                                         left |-> Len(instructions)]]
              ELSE o2
        o4 == IF o.gown > 0 /\ k \notin StopMovingNames \cup {PULSE_CORRECTION}
              THEN [o3 EXCEPT !.gown = @ + 1]
              ELSE o3
    IN  o4

\* The worker pops instruction k.
ObsPop(o, k) ==
    LET o1 == IF k \in HeadWaitedNames
              THEN [o EXCEPT !.older.left = 0]
              ELSE [o EXCEPT !.older.left = IF @ > 0 THEN @ - 1 ELSE 0]
    IN  [o1 EXCEPT !.gown = IF @ = Len(instructions) THEN 0 ELSE @]

\* Facade call c begins.
ObsBegin(o, c) ==
    [o EXCEPT !.hist = IF c.op = "start_guiding" /\ o.hist = "pairs" THEN "started"
                       ELSE IF c.op = "stop_guiding" /\ o.hist = "started" THEN "stopping"
                       ELSE "other",
              !.pc = IF c.op = "pulse_correction" THEN <<>> ELSE @,
              !.target = IF c.op = "slew_to" THEN [ra |-> c.a, de |-> c.b] ELSE @,
              !.correction = IF c.op = "pulse_correction"
                             THEN [index |-> c.a, pulse_length |-> c.b] ELSE @]

\* Facade call c returns.
ObsReturn(o, c) ==
    [o EXCEPT !.hist = IF c.op = "stop_guiding" /\ o.hist = "stopping" THEN "pairs"
                       ELSE @,
              !.h1 = c.op, !.h2 = o.h1,
              !.d1 = direction, !.d2 = o.d1,
              !.jog = IF c.op = "stop_move"
                      THEN [@ EXCEPT ![c.a].moves = 0] ELSE @,
              !.older = [at |-> 0, left |-> 0]]

(***************************************************************************)
(* The worker thread: OperateTelescopeASCOM.run.                           *)
(***************************************************************************)
NoLook == [rect |-> SentinelRect, decl |-> SentinelDecl]

\* Faulty variant, for sensitivity runs: the next instruction is popped while
\* the last one is still in execution, as a second consumer would.
WPopWhileExecuting ==
    /\ Len(instructions) > 0
    /\ cur' = PopItem(instructions)
    /\ instructions' = PopRest(instructions)
    /\ wpc' = "exec"
    /\ obs' = ObsPop(obs, PopItem(instructions))
    /\ UNCHANGED <<initialized, initialization_error, direction, guide, look>>
    /\ UNCHANGED <<finished, fields, mountVars, now, initVars, callerVars>>

\* "instruction = self.instructions.pop()"
WPop ==
    /\ wpc = "loop"
    /\ Len(instructions) > 0
    /\ cur' = PopItem(instructions)
    /\ instructions' = PopRest(instructions)
    /\ wpc' = "exec"
    /\ obs' = ObsPop(obs, PopItem(instructions))
    /\ UNCHANGED <<initialized, initialization_error, direction, guide, look>>
    /\ UNCHANGED <<finished, fields, mountVars, now, initVars, callerVars>>

\* The handler of `cur` is complete: back to the head of the loop.
WNext == wpc' = "loop" /\ cur' = "none"

WSlewTo ==
    /\ wpc = "exec" /\ cur = SLEW
    /\ tel' = MountAfterSlew(tel, fields.rect, fields.decl)
    /\ obs' = ObsServed(obs, SLEW)
    /\ WNext
    /\ UNCHANGED <<initialized, initialization_error, direction, guide, look>>
    /\ UNCHANGED <<sharedVars, mount, now, initVars, callerVars>>

\* Faulty variant, for sensitivity runs: "and" in place of "or" in the while
\* condition, so that one axis at rest ends the loop.
LookupMovedOnBothAxes(t, l) ==
    /\ Abs(RightAscension(t) - l.rect) > LookupPrecision
    /\ Abs(Declination(t) - l.decl) > LookupPrecision

\* Faulty variant, for sensitivity runs: ">=" in place of ">" in the while
\* condition, so that a mount at rest is still taken to move.
LookupMovedOrEqual(t, l) ==
    \/ Abs(RightAscension(t) - l.rect) >= LookupPrecision
    \/ Abs(Declination(t) - l.decl) >= LookupPrecision

\* The loop condition of the look-up: the mount has moved since the last sample.
LookupMoved(t, l) ==
    \/ Abs(RightAscension(t) - l.rect) > LookupPrecision
    \/ Abs(Declination(t) - l.decl) > LookupPrecision

\* One evaluation of the while condition of 'lookup tel position', and either
\* one pass of the loop body or the statements after the loop.
WLookupTelPosition ==
    /\ wpc = "exec" /\ cur = LOOKUP
    /\ IF LookupMoved(tel, look)
       THEN /\ look' = [rect |-> RightAscension(tel), decl |-> Declination(tel)]
            /\ UNCHANGED <<wpc, cur, sharedVars, obs>>
       ELSE /\ fields' = [fields EXCEPT !.ra = RaOfRect(look.rect),
                                         !.de = Radians(look.decl)]
            /\ finished' = [finished EXCEPT ![LOOKUP] = TRUE]
            /\ look' = NoLook
            /\ obs' = ObsServed(obs, LOOKUP)
            /\ WNext
            /\ UNCHANGED instructions
    /\ UNCHANGED <<initialized, initialization_error, direction, guide>>
    /\ UNCHANGED <<mountVars, now, initVars, callerVars>>

\* Faulty variant, for sensitivity runs: the comparisons are turned around.
CalibratedDirectionInverted(dir, ra_begin, ra_end, de_begin, de_end) ==
    LET d1 == IF ra_end > ra_begin THEN [dir EXCEPT !.east = 3, !.west = 2] ELSE dir
    IN  IF de_end > de_begin THEN [d1 EXCEPT !.north = 1, !.south = 0] ELSE d1

\* Faulty variant, for sensitivity runs: a reversed axis exchanges the two codes the mapping holds.
CalibratedDirectionToggle(dir, ra_begin, ra_end, de_begin, de_end) ==
    LET d1 == IF ra_end < ra_begin
              THEN [dir EXCEPT !.east = dir.west, !.west = dir.east] ELSE dir
    IN  IF de_end < de_begin
        THEN [d1 EXCEPT !.north = dir.south, !.south = dir.north] ELSE d1

\* Faulty variant, for sensitivity runs: only the tested direction of each axis
\* is re-assigned, its opposite keeps its code.
CalibratedDirectionTestedOnly(dir, ra_begin, ra_end, de_begin, de_end) ==
    LET d1 == IF ra_end < ra_begin THEN [dir EXCEPT !.east = 3] ELSE dir
    IN  IF de_end < de_begin THEN [d1 EXCEPT !.north = 1] ELSE d1

\* "if ra_end < ra_begin: east, west = 3, 2"; "if de_end < de_begin: north,
\* south = 1, 0"
CalibratedDirection(dir, ra_begin, ra_end, de_begin, de_end) ==
    LET d1 == IF ra_end < ra_begin THEN [dir EXCEPT !.east = 3, !.west = 2] ELSE dir
    IN  IF de_end < de_begin THEN [d1 EXCEPT !.north = 1, !.south = 0] ELSE d1

WCalibrate ==
    /\ wpc = "exec" /\ cur = CALIBRATE
    /\ LET ra_begin == RightAscension(tel)
           t1 == MountAfterPulse(tel, 2, fields.calibrate_pulse_length)
           ra_end == RightAscension(t1)
           de_begin == Declination(t1)
           t2 == MountAfterPulse(t1, 0, fields.calibrate_pulse_length)
           de_end == Declination(t2)
       IN  /\ tel' = t2
           /\ direction' = CalibratedDirection(direction, ra_begin, ra_end,
                                               de_begin, de_end)
           /\ obs' = [ObsServed(obs, CALIBRATE) EXCEPT
                         !.cal = [ran |-> TRUE, before |-> direction,
                                  ra_begin |-> ra_begin, ra_end |-> ra_end,
                                  de_begin |-> de_begin, de_end |-> de_end]]
    /\ finished' = [finished EXCEPT ![CALIBRATE] = TRUE]
    /\ WNext
    /\ UNCHANGED <<initialized, initialization_error, guide, look>>
    /\ UNCHANGED <<instructions, fields, mount, now, initVars, callerVars>>

\* Faulty variant, for sensitivity runs: a rate of zero counts as positive.
GuidingStartZeroPositive(rate_ra, rate_de) ==
    [start_time |-> now,
     start_ra |-> RaOfRect(RightAscension(tel)),
     start_de |-> Radians(Declination(tel)),
     rate_ra |-> rate_ra,
     rate_de |-> rate_de,
     direction_ra |-> IF Sign(rate_ra) >= 0 THEN direction.east ELSE direction.west,
     direction_de |-> IF Sign(rate_de) >= 0 THEN direction.north ELSE direction.south]

\* The locals set by 'start guiding'.
GuidingStart(rate_ra, rate_de) ==
    [start_time |-> now,
     start_ra |-> RaOfRect(RightAscension(tel)),
     start_de |-> Radians(Declination(tel)),
     rate_ra |-> rate_ra,
     rate_de |-> rate_de,
     direction_ra |-> IF Sign(rate_ra) > 0 THEN direction.east ELSE direction.west,
     direction_de |-> IF Sign(rate_de) > 0 THEN direction.north ELSE direction.south]

WStartGuiding ==
    /\ wpc = "exec" /\ cur = START_GUIDING
    /\ guide' = GuidingStart(fields.rate_ra, fields.rate_de)
    /\ instructions' = InsertHead(instructions, CONTINUE_GUIDING)
    /\ WNext
    /\ UNCHANGED <<initialized, initialization_error, direction, look>>
    /\ UNCHANGED <<finished, fields, mountVars, now, initVars, callerVars, obs>>

\* Faulty variant, for sensitivity runs: a pulse also when the two displacements are equal.
TooLittleOrEqual(start, rate, elapsed, current) ==
    LET target == start + rate * elapsed
    IN  Abs(target - start) >= Abs(current - start)

\* "if abs(target - start) > abs(current - start)": the telescope has been moved
\* too little on this axis.
TooLittle(start, rate, elapsed, current) ==
    LET target == start + rate * elapsed
    IN  Abs(target - start) > Abs(current - start)

\* The driver codes 'continue guiding' pulses with, RA first.
GuidingPulses(g, time, current_ra, current_de) ==
    (IF TooLittle(g.start_ra, g.rate_ra, time - g.start_time, current_ra)
     THEN <<g.direction_ra>> ELSE <<>>)
    \o
    (IF TooLittle(g.start_de, g.rate_de, time - g.start_time, current_de)
     THEN <<g.direction_de>> ELSE <<>>)

RECURSIVE MountAfterPulses(_, _, _)
MountAfterPulses(t, codes, duration) ==
    IF codes = <<>> THEN t
    ELSE MountAfterPulses(MountAfterPulse(t, Head(codes), duration),
                          Tail(codes), duration)

\* Faulty variant, for sensitivity runs: 'continue guiding' is not re-inserted.
WContinueGuidingOnce ==
    /\ wpc = "exec" /\ cur = CONTINUE_GUIDING
    /\ LET current_ra == RaOfRect(RightAscension(tel))
           current_de == Radians(Declination(tel))
           pulses == GuidingPulses(guide, now, current_ra, current_de)
       IN  /\ tel' = MountAfterPulses(tel, pulses, GuidingIntervalMs)
           /\ obs' = [obs EXCEPT !.glog = [ran |-> TRUE, g |-> guide, time |-> now,
                                           tel |-> tel, pulses |-> pulses]]
    /\ WNext
    /\ UNCHANGED <<initialized, initialization_error, direction, guide, look>>
    /\ UNCHANGED <<instructions, finished, fields, mount, now, initVars, callerVars>>

WContinueGuiding ==
    /\ wpc = "exec" /\ cur = CONTINUE_GUIDING
    /\ LET current_ra == RaOfRect(RightAscension(tel))
           current_de == Radians(Declination(tel))
           pulses == GuidingPulses(guide, now, current_ra, current_de)
       IN  /\ tel' = MountAfterPulses(tel, pulses, GuidingIntervalMs)
           /\ obs' = [obs EXCEPT !.glog = [ran |-> TRUE, g |-> guide, time |-> now,
                                           tel |-> tel, pulses |-> pulses]]
    /\ instructions' = InsertHead(instructions, CONTINUE_GUIDING)
    /\ WNext
    /\ UNCHANGED <<initialized, initialization_error, direction, guide, look>>
    /\ UNCHANGED <<finished, fields, mount, now, initVars, callerVars>>

WStopGuiding ==
    /\ wpc = "exec" /\ cur = STOP_GUIDING
    /\ instructions' = RemoveInstruction(instructions, CONTINUE_GUIDING)
    /\ finished' = [finished EXCEPT ![STOP_GUIDING] = TRUE]
    /\ obs' = ObsServed(obs, STOP_GUIDING)
    /\ WNext
    /\ UNCHANGED <<initialized, initialization_error, direction, guide, look>>
    /\ UNCHANGED <<fields, mountVars, now, initVars, callerVars>>

\* Faulty variant, for sensitivity runs: the instruction is not put back into the list.
WStartMovingOnce(d) ==
    /\ wpc = "exec" /\ cur = StartMoving(d)
    /\ tel' = MountAfterPulse(tel, direction[d], PollingIntervalMs)
    /\ obs' = ObsJogPulse(obs, d)
    /\ WNext
    /\ UNCHANGED <<initialized, initialization_error, direction, guide, look>>
    /\ UNCHANGED <<sharedVars, mount, now, initVars, callerVars>>

WStartMoving(d) ==
    /\ wpc = "exec" /\ cur = StartMoving(d)
    /\ tel' = MountAfterPulse(tel, direction[d], PollingIntervalMs)
    /\ obs' = ObsJogPulse(obs, d)
    /\ instructions' = InsertHead(instructions, StartMoving(d))
    /\ WNext
    /\ UNCHANGED <<initialized, initialization_error, direction, guide, look>>
    /\ UNCHANGED <<finished, fields, mount, now, initVars, callerVars>>

WStopMoving(d) ==
    /\ wpc = "exec" /\ cur = StopMoving(d)
    /\ instructions' = RemoveInstruction(instructions, StartMoving(d))
    /\ finished' = [finished EXCEPT ![StopMoving(d)] = TRUE]
    /\ obs' = ObsServed(obs, StopMoving(d))
    /\ WNext
    /\ UNCHANGED <<initialized, initialization_error, direction, guide, look>>
    /\ UNCHANGED <<fields, mountVars, now, initVars, callerVars>>

\* Faulty variant, for sensitivity runs: the logical direction is passed to the driver as it is.
UncorrectedDirection(dir, index) == index

\* "[north, south, east, west][instruction['direction']]"
CorrectedDirection(dir, index) ==
    <<dir.north, dir.south, dir.east, dir.west>>[index + 1]

WPulseCorrection ==
    /\ wpc = "exec" /\ cur = PULSE_CORRECTION
    /\ LET code == CorrectedDirection(direction, fields.direction)
       IN  /\ tel' = MountAfterPulse(tel, code, fields.pulse_length)
           /\ obs' = [ObsServed(obs, PULSE_CORRECTION) EXCEPT
                         !.pc = IF Len(@) < 2
                                THEN Append(@, [code |-> code,
                                                duration |-> fields.pulse_length])
                                ELSE @]
    /\ finished' = [finished EXCEPT ![PULSE_CORRECTION] = TRUE]
    /\ WNext
    /\ UNCHANGED <<initialized, initialization_error, direction, guide, look>>
    /\ UNCHANGED <<instructions, fields, mount, now, initVars, callerVars>>

\* Faulty variant, for sensitivity runs: 'terminate' is served like an unknown name, the loop
\* goes on.
WTerminateIgnored ==
    /\ wpc = "exec" /\ cur = TERMINATE
    /\ WNext
    /\ UNCHANGED <<initialized, initialization_error, direction, guide, look>>
    /\ UNCHANGED <<sharedVars, mountVars, now, initVars, callerVars, obs>>

\* "elif instruction['name'] == 'terminate': break"
WTerminate ==
    /\ wpc = "exec" /\ cur = TERMINATE
    /\ wpc' = "ended"
    /\ cur' = "none"
    /\ UNCHANGED <<initialized, initialization_error, direction, guide, look>>
    /\ UNCHANGED <<sharedVars, mountVars, now, initVars, callerVars, obs>>

(***************************************************************************)
(* The worker's initialization phase.  The error texts are those of        *)
(* run() and connect_and_test_telescope().                                 *)
(***************************************************************************)
\* The instructions whose branch calls the driver.
DriverNames ==
    {SLEW, LOOKUP, CALIBRATE, START_GUIDING, CONTINUE_GUIDING, PULSE_CORRECTION}
        \cup StartMovingNames

\* Where the mount can be when a driver call in the branch of instruction k
\* raises: where it was, or, in the branches with two pulses, where the first
\* pulse has taken it.
MountBeforeError(k) ==
    {tel} \cup
    (IF k = CALIBRATE
     THEN {MountAfterPulse(tel, 2, fields.calibrate_pulse_length)}
     ELSE IF k = CONTINUE_GUIDING
     THEN LET pulses == GuidingPulses(guide, now, RaOfRect(RightAscension(tel)),
                                      Radians(Declination(tel)))
          IN  IF Len(pulses) = 2
              THEN {MountAfterPulse(tel, pulses[1], GuidingIntervalMs)} ELSE {}
     ELSE {})

\* Faulty variant, for sensitivity runs: the branch is wrapped in a try
\* statement whose finally clause marks the instruction finished.
WDriverErrorFinished ==
    /\ wpc = "exec" /\ cur \in DriverNames
    /\ wpc' = "crashed"
    /\ finished' = [k \in FinishedNames |-> finished[k] \/ k = cur]
    /\ tel' \in MountBeforeError(cur)
    /\ UNCHANGED <<initialized, initialization_error, cur, direction, guide, look>>
    /\ UNCHANGED <<instructions, fields, mount, now, initVars, callerVars, obs>>

\* A driver call raises inside the main loop, which has no try statement: the
\* exception leaves run() and the thread ends, the instruction as it was.
WDriverError ==
    /\ wpc = "exec" /\ cur \in DriverNames
    /\ wpc' = "crashed"
    /\ tel' \in MountBeforeError(cur)
    /\ UNCHANGED <<initialized, initialization_error, cur, direction, guide, look>>
    /\ UNCHANGED <<sharedVars, mount, now, initVars, callerVars, obs>>

InitializationErrors ==
    {"Pythoncom module could not be imported. Is this a Windows system?",
     "Unable to access telescope driver",
     "Telescope tracking could not be switched on"}

\* Faulty variant, for sensitivity runs: the except branch stores the message
\* but does not return, so that run() goes on to "self.initialized = True".
WInitFailNoReturn ==
    /\ wpc = "start"
    /\ \E e \in InitializationErrors : initialization_error' = e
    /\ initialized' = TRUE
    /\ wpc' = "loop"
    /\ UNCHANGED <<cur, direction, guide, look>>
    /\ UNCHANGED <<sharedVars, mountVars, now, initVars, callerVars, obs>>

\* The import of pythoncom, the connection, the capability checks, switching on
\* tracking or setting the guide rate fails: the message is stored and run()
\* returns.
WInitFail ==
    /\ wpc = "start"
    /\ \E e \in InitializationErrors : initialization_error' = e
    /\ wpc' = "failed"
    /\ UNCHANGED <<initialized, cur, direction, guide, look>>
    /\ UNCHANGED <<sharedVars, mountVars, now, initVars, callerVars, obs>>

\* "self.initialized = True"
WInitOk ==
    /\ wpc = "start"
    /\ initialized' = TRUE
    /\ wpc' = "loop"
    /\ UNCHANGED <<initialization_error, cur, direction, guide, look>>
    /\ UNCHANGED <<sharedVars, mountVars, now, initVars, callerVars, obs>>

(***************************************************************************)
(* Telescope.__init__: the polling loop that waits for the worker.         *)
(***************************************************************************)
TimeoutMessage == "Timeout in connecting to telescope driver"

\* "if self.optel.initialization_error != '': raise TelescopeException(...)"
FCheckError ==
    /\ fpc = "check_error"
    /\ IF initialization_error # ""
       THEN /\ fpc' = "raised_error"
            /\ obs' = [obs EXCEPT !.polled = initialization_error,
                                   !.raised = initialization_error,
                                   !.atRaise = [initialized |-> initialized,
                                                error |-> initialization_error]]
       ELSE /\ fpc' = "check_initialized"
            /\ obs' = [obs EXCEPT !.polled = initialization_error]
    /\ UNCHANGED <<workerVars, sharedVars, mountVars, now, polls, callerVars>>

\* Faulty variant, for sensitivity runs: the loop is not counted, "while True".
FCheckInitializedUncounted ==
    /\ fpc = "check_initialized"
    /\ fpc' = IF initialized THEN "after_loop" ELSE "check_error"
    /\ polls' = polls
    /\ UNCHANGED <<workerVars, sharedVars, mountVars, now, callerVars, obs>>

\* "if self.optel.initialized: break", else sleep and take the next iteration of
\* "for iter in range(polling_time_out_count)".
FCheckInitialized ==
    /\ fpc = "check_initialized"
    /\ IF initialized
       THEN fpc' = "after_loop" /\ polls' = polls
       ELSE /\ polls' = polls + 1
            /\ fpc' = IF polls + 1 < PollingTimeOutCount THEN "check_error"
                       ELSE "after_loop"
    /\ UNCHANGED <<workerVars, sharedVars, mountVars, now, callerVars, obs>>

\* "if not self.optel.initialized: raise TelescopeException('Timeout ...')"
FAfterLoop ==
    /\ fpc = "after_loop"
    /\ IF ~initialized
       THEN /\ fpc' = "raised_timeout"
            /\ obs' = [obs EXCEPT !.raised = TimeoutMessage,
                                   !.atRaise = [initialized |-> initialized,
                                                error |-> initialization_error]]
       ELSE fpc' = "constructed" /\ obs' = obs
    /\ UNCHANGED <<workerVars, sharedVars, mountVars, now, polls, callerVars>>

(***************************************************************************)
(* The facade calls, made by the caller thread.  A call begins by filling  *)
(* the template's fields and resetting its 'finished' field, then puts the *)
(* template into the list, and a blocking call polls 'finished'.           *)
(***************************************************************************)
CanCall == fpc = "constructed" /\ cpc = "idle" /\ calls > 0

\* Faulty variant, for sensitivity runs: the field is left as the last call left it.
KeepFinished(f, k) == f

\* "instruction['finished'] = False"
ResetFinished(f, k) == [f EXCEPT ![k] = FALSE]

\* stop_move_* and pulse_correction use list.append, every other call
\* list.insert(0, ...).
\* Faulty variant, for sensitivity runs: every call appends.
FacadeInsertAppend(q, k) == AppendTail(q, k)

\* Faulty variant, for sensitivity runs: every call inserts at index 0.
FacadeInsertAtHead(q, k) == InsertHead(q, k)

FacadeInsert(q, k) ==
    IF k \in StopMovingNames \cup {PULSE_CORRECTION}
    THEN AppendTail(q, k) ELSE InsertHead(q, k)

Begin(c) ==
    /\ CanCall
    /\ call' = c
    /\ calls' = calls - 1
    /\ cpc' = "insert"
    /\ obs' = ObsBegin(obs, c)
    /\ UNCHANGED <<workerVars, instructions, mountVars, now, initVars>>
    /\ UNCHANGED <<gui, readout_correction, guiding_active, result>>

CallCalibrate ==
    /\ Begin([op |-> "calibrate", instr |-> CALIBRATE, a |-> 0, b |-> 0])
    /\ fields' = [fields EXCEPT !.calibrate_pulse_length = CalibratePulseLength]
    /\ finished' = ResetFinished(finished, CALIBRATE)

CallSlewTo(ra, de) ==
    /\ Begin([op |-> "slew_to", instr |-> SLEW, a |-> ra, b |-> de])
    /\ fields' = [fields EXCEPT !.rect = RectOf(ra), !.decl = Degrees(de)]
    /\ UNCHANGED finished

CallLookupTelPosition ==
    /\ Begin([op |-> "lookup_tel_position", instr |-> LOOKUP, a |-> 0, b |-> 0])
    /\ finished' = ResetFinished(finished, LOOKUP)
    /\ UNCHANGED fields

CallStartGuiding(rate_ra, rate_de) ==
    /\ Begin([op |-> "start_guiding", instr |-> START_GUIDING,
              a |-> rate_ra, b |-> rate_de])
    /\ fields' = [fields EXCEPT !.rate_ra = rate_ra, !.rate_de = rate_de]
    /\ UNCHANGED finished

CallStopGuiding ==
    /\ Begin([op |-> "stop_guiding", instr |-> STOP_GUIDING, a |-> 0, b |-> 0])
    /\ finished' = ResetFinished(finished, STOP_GUIDING)
    /\ UNCHANGED fields

CallMove(d) ==
    /\ Begin([op |-> "move", instr |-> StartMoving(d), a |-> d, b |-> 0])
    /\ UNCHANGED <<finished, fields>>

CallStopMove(d) ==
    /\ Begin([op |-> "stop_move", instr |-> StopMoving(d), a |-> d, b |-> 0])
    /\ finished' = ResetFinished(finished, StopMoving(d))
    /\ UNCHANGED fields

CallPulseCorrection(index, pulse_length) ==
    /\ Begin([op |-> "pulse_correction", instr |-> PULSE_CORRECTION,
              a |-> index, b |-> pulse_length])
    /\ fields' = [fields EXCEPT !.direction = index, !.pulse_length = pulse_length]
    /\ finished' = ResetFinished(finished, PULSE_CORRECTION)

CallTerminate ==
    /\ Begin([op |-> "terminate", instr |-> TERMINATE, a |-> 0, b |-> 0])
    /\ UNCHANGED <<finished, fields>>

\* Faulty variant, for sensitivity runs: the call stays in progress until the worker thread
\* has ended.
ReturnAfterJoin(c) ==
    /\ cpc' = "join"
    /\ call' = c

\* The call returns to the caller.
Return(c) ==
    /\ cpc' = "idle"
    /\ call' = NoCall

\* The template is put into the list.  slew_to goes on to its look-up, a
\* blocking call to its polling loop, terminate to join(); start_guiding sets
\* guiding_active and returns, move_* returns.
CInsert ==
    /\ cpc = "insert"
    /\ instructions' = FacadeInsert(instructions, call.instr)
    /\ IF call.instr = SLEW
       THEN /\ cpc' = "lookup"
            /\ obs' = ObsInsert(obs, call, call.instr)
            /\ UNCHANGED <<call, guiding_active>>
       ELSE IF call.instr \in FinishedNames
       THEN /\ cpc' = "wait"
            /\ obs' = ObsInsert(obs, call, call.instr)
            /\ UNCHANGED <<call, guiding_active>>
       ELSE IF call.instr = TERMINATE
       THEN /\ cpc' = "join"
            /\ obs' = ObsInsert(obs, call, call.instr)
            /\ UNCHANGED <<call, guiding_active>>
       ELSE /\ Return(call)
            /\ guiding_active' = IF call.instr = START_GUIDING THEN TRUE
                                  ELSE guiding_active
            /\ obs' = ObsReturn(ObsInsert(obs, call, call.instr), call)
    /\ UNCHANGED <<workerVars, finished, fields, mountVars, now, initVars>>
    /\ UNCHANGED <<calls, gui, readout_correction, result>>

\* slew_to calls lookup_tel_position_uncorrected.
CLookup ==
    /\ cpc = "lookup"
    /\ finished' = ResetFinished(finished, LOOKUP)
    /\ call' = [call EXCEPT !.instr = LOOKUP]
    /\ cpc' = "insert"
    /\ UNCHANGED <<workerVars, instructions, fields, mountVars, now, initVars>>
    /\ UNCHANGED <<calls, gui, readout_correction, guiding_active, result, obs>>

\* Faulty variant, for sensitivity runs: the difference is stored as it is.
ReadoutCorrectionUnwrapped(ra, de, rect_lookup, decl_lookup) ==
    [ra |-> ra - rect_lookup, de |-> de - decl_lookup]

\* "(ra - rect_lookup + pi) % (2. * pi) - pi" and "de - decl_lookup"
ReadoutCorrection(ra, de, rect_lookup, decl_lookup) ==
    [ra |-> ((ra - rect_lookup + PI) % (2 * PI)) - PI,
     de |-> de - decl_lookup]

\* Faulty variant, for sensitivity runs: the correction is not applied.
UncorrectedPosition(ra, de, rc) == [ra |-> ra, de |-> de]

\* lookup_tel_position: the look-up plus the correction of the last slew_to.
CorrectedPosition(ra, de, rc) == [ra |-> ra + rc.ra, de |-> de + rc.de]

\* "while not instruction['finished']: time.sleep(...)" ends, and the call
\* returns.
CReturn ==
    /\ cpc = "wait"
    /\ finished[call.instr]
    /\ readout_correction' =
           IF call.op = "slew_to"
           THEN ReadoutCorrection(call.a, call.b, fields.ra, fields.de)
           ELSE readout_correction
    /\ result' =
           IF call.op = "lookup_tel_position"
           THEN CorrectedPosition(fields.ra, fields.de, readout_correction)
           ELSE result
    /\ guiding_active' = IF call.op = "stop_guiding" THEN FALSE ELSE guiding_active
    /\ Return(call)
    /\ obs' = ObsReturn(obs, call)
    /\ UNCHANGED <<workerVars, sharedVars, mountVars, now, initVars, calls, gui>>

\* terminate: "self.optel.join()"
CJoin ==
    /\ cpc = "join"
    /\ wpc \in {"ended", "crashed"}
    /\ Return(call)
    /\ obs' = ObsReturn(obs, call)
    /\ UNCHANGED <<workerVars, sharedVars, mountVars, now, initVars>>
    /\ UNCHANGED <<calls, gui, readout_correction, guiding_active, result>>

(***************************************************************************)
(* A second calling thread (the GUI thread next to the workflow thread),   *)
(* making one pulse_correction call on the same Telescope object.          *)
(***************************************************************************)
\* pulse_correction: the fields are written and 'finished' is reset.
GuiCallPulseCorrection(index, pulse_length) ==
    /\ fpc = "constructed"
    /\ gui.pc = "idle"
    /\ gui' = [pc |-> "insert", instr |-> PULSE_CORRECTION]
    /\ fields' = [fields EXCEPT !.direction = index, !.pulse_length = pulse_length]
    /\ finished' = ResetFinished(finished, PULSE_CORRECTION)
    /\ obs' = [obs EXCEPT !.gsince = FALSE]
    /\ UNCHANGED <<workerVars, instructions, mountVars, now, initVars>>
    /\ UNCHANGED <<cpc, call, calls, readout_correction, guiding_active, result>>

\* "self.optel.instructions.append(pulse_correction_instruction)"
GuiInsert ==
    /\ gui.pc = "insert"
    /\ instructions' = FacadeInsert(instructions, gui.instr)
    /\ gui' = [gui EXCEPT !.pc = "wait"]
    /\ obs' = [obs EXCEPT !.gown = Len(instructions) + 1]
    /\ UNCHANGED <<workerVars, finished, fields, mountVars, now, initVars>>
    /\ UNCHANGED <<cpc, call, calls, readout_correction, guiding_active, result>>

\* "while not pulse_correction_instruction['finished']" ends: the call returns.
GuiReturn ==
    /\ gui.pc = "wait"
    /\ finished[gui.instr]
    /\ gui' = [gui EXCEPT !.pc = "returned"]
    /\ UNCHANGED <<workerVars, sharedVars, mountVars, now, initVars, obs>>
    /\ UNCHANGED <<cpc, call, calls, readout_correction, guiding_active, result>>

\* A second of wall clock passes.
Tick ==
    /\ now < MaxTime
    /\ now' = now + 1
    /\ UNCHANGED <<workerVars, sharedVars, mountVars, initVars, callerVars, obs>>

(***************************************************************************)
(* Initial states.                                                         *)
(***************************************************************************)
\* The mount is still in motion between two reads of its position by 'lookup
\* tel position' ("Wait until the mount is standing still"): it creeps on by
\* one grid step in declination, until it comes to rest at the latest at the
\* end of its travel, or in right ascension, no further than one step past
\* the middle of its travel.
MountMoves ==
    /\ wpc = "exec" /\ cur = LOOKUP
    /\ \/ tel.ra < TelLimit + 1 /\ tel' = [tel EXCEPT !.ra = @ + 1]
       \/ tel.de < TelLimit /\ tel' = [tel EXCEPT !.de = @ + 1]
    /\ UNCHANGED <<workerVars, sharedVars, mount, now, initVars, callerVars, obs>>

NoFields == [rect |-> 0, decl |-> 0, ra |-> 0, de |-> 0, rate_ra |-> 0,
             rate_de |-> 0, direction |-> 0, pulse_length |-> 0,
             calibrate_pulse_length |-> 0]

Mounts(flips, biases) ==
    [raFlip : flips, deFlip : flips, biasRa : biases, biasDe : biases]

\* The objects as OperateTelescopeASCOM.__init__ leaves them, the worker thread
\* just started and Telescope.__init__ entering its polling loop.
InitStarted(mounts, budget) ==
    /\ instructions = <<>>
    /\ finished = [k \in FinishedNames |-> FALSE]
    /\ fields = NoFields
    /\ initialized = FALSE
    /\ initialization_error = ""
    /\ wpc = "start"
    /\ cur = "none"
    /\ direction = DefaultDirection
    /\ guide = NoGuide
    /\ look = NoLook
    /\ tel = [ra |-> TelLimit, de |-> 0]
    /\ mount \in mounts
    /\ now = 0
    /\ fpc = "check_error"
    /\ polls = 0
    /\ cpc = "idle"
    /\ call = NoCall
    /\ calls = budget
    /\ gui = NoGuiCall
    /\ readout_correction = [ra |-> 0, de |-> 0]
    /\ guiding_active = FALSE
    /\ result = [ra |-> 0, de |-> 0]
    /\ obs = InitObs

\* The state in which Telescope.__init__ returns: the worker initialized and
\* serving the list.
InitConstructed(mounts, budget) ==
    /\ instructions = <<>>
    /\ finished = [k \in FinishedNames |-> FALSE]
    /\ fields = NoFields
    /\ initialized = TRUE
    /\ initialization_error = ""
    /\ wpc = "loop"
    /\ cur = "none"
    /\ direction = DefaultDirection
    /\ guide = NoGuide
    /\ look = NoLook
    /\ tel = [ra |-> TelLimit, de |-> 0]
    /\ mount \in mounts
    /\ now = 0
    /\ fpc = "constructed"
    /\ polls = 0
    /\ cpc = "idle"
    /\ call = NoCall
    /\ calls = budget
    /\ gui = NoGuiCall
    /\ readout_correction = [ra |-> 0, de |-> 0]
    /\ guiding_active = FALSE
    /\ result = [ra |-> 0, de |-> 0]
    /\ obs = InitObs

(***************************************************************************)
(* Specifications.  Each one lets the caller make a bounded number of      *)
(* facade calls of one group, in any order and with any interleaving of    *)
(* the caller and the worker thread.                                       *)
(***************************************************************************)
PlainMounts == Mounts({FALSE}, {0})

WiredMounts == Mounts({FALSE, TRUE}, {0})

\* Jogging: move_X and stop_move_X.
NextJog ==
    \/ \E d \in Dirs : CallMove(d)
    \/ \E d \in Dirs : CallStopMove(d)
    \/ CInsert
    \/ CReturn
    \/ WPop
    \/ \E d \in Dirs : WStartMoving(d)
    \/ \E d \in Dirs : WStopMoving(d)

SpecJog == InitConstructed(PlainMounts, MaxJogCalls) /\ [][NextJog]_vars

\* Guiding: start_guiding and stop_guiding, with the clock running.
GuideRates == {<<30, 0>>, <<-30, 30>>, <<0, -30>>}

NextGuide ==
    \/ \E r \in GuideRates : CallStartGuiding(r[1], r[2])
    \/ CallStopGuiding
    \/ CInsert
    \/ CReturn
    \/ WPop
    \/ WStartGuiding
    \/ WContinueGuiding
    \/ WStopGuiding
    \/ Tick

SpecGuide == InitConstructed(PlainMounts, MaxGuideCalls) /\ [][NextGuide]_vars

\* Slewing and looking up, on mounts with a fixed read-back bias (hours,
\* degrees).  Targets: -1 h, 2 h, 23 h and 25 h; -10 and 20 degrees.
BiasedMounts ==
    [raFlip : {FALSE}, deFlip : {FALSE}, biasRa : {-1, 0, 1}, biasDe : {0, 1}]

SlewRa == {-30, 60, 690, 750}

SlewDe == {-20, 40}

NextSlew ==
    \/ \E ra \in SlewRa, de \in SlewDe : CallSlewTo(ra, de)
    \/ CallLookupTelPosition
    \/ CInsert
    \/ CLookup
    \/ CReturn
    \/ WPop
    \/ WSlewTo
    \/ WLookupTelPosition

SpecSlew == InitConstructed(BiasedMounts, MaxSlewCalls) /\ [][NextSlew]_vars

\* Calibration and pulse corrections, on the four wiring orientations.
PulseLengths == {50, 200}

NextCal ==
    \/ CallCalibrate
    \/ \E index \in 0..3, pulse_length \in PulseLengths :
           CallPulseCorrection(index, pulse_length)
    \/ CInsert
    \/ CReturn
    \/ WPop
    \/ WCalibrate
    \/ WPulseCorrection

SpecCal == InitConstructed(WiredMounts, MaxCalCalls) /\ [][NextCal]_vars

\* Construction of the facade while the worker initializes, followed by
\* look-ups and terminate.
NextInit ==
    \/ WInitFail
    \/ WInitOk
    \/ FCheckError
    \/ FCheckInitialized
    \/ FAfterLoop
    \/ CallLookupTelPosition
    \/ CallTerminate
    \/ CInsert
    \/ CReturn
    \/ CJoin
    \/ WPop
    \/ WLookupTelPosition
    \/ WTerminate

SpecInit == InitStarted(PlainMounts, MaxInitCalls) /\ [][NextInit]_vars

\* The same, with the caller thread running: the steps of Telescope.__init__
\* are taken when they can be (the sleep between two polls ends).  Nothing is
\* assumed of the worker thread: it may never leave its initialization.
SpecInitLive ==
    /\ SpecInit
    /\ WF_vars(FCheckError)
    /\ WF_vars(FCheckInitialized)
    /\ WF_vars(FAfterLoop)

\* Termination with repeating instructions in the list: a jog, a guiding chain
\* and look-ups, then terminate (or any other order of these calls).  The clock
\* stands still, so the guiding chain repeats without pulsing.
NextTerm ==
    \/ CallMove("north")
    \/ CallStartGuiding(30, -30)
    \/ CallLookupTelPosition
    \/ CallTerminate
    \/ CInsert
    \/ CReturn
    \/ CJoin
    \/ WPop
    \/ WStartMoving("north")
    \/ WStartGuiding
    \/ WContinueGuiding
    \/ WLookupTelPosition
    \/ WTerminate

\* Both threads run: a step of the worker's loop and a step of a facade call in
\* progress is taken when it can be.  Whether the caller begins a call is left
\* open.
WorkerFairness ==
    /\ WF_vars(WPop)
    /\ WF_vars(WStartMoving("north"))
    /\ WF_vars(WStartGuiding)
    /\ WF_vars(WContinueGuiding)
    /\ WF_vars(WLookupTelPosition)
    /\ WF_vars(WTerminate)

CallerFairness == WF_vars(CInsert) /\ WF_vars(CReturn) /\ WF_vars(CJoin)

SpecTerm ==
    /\ InitConstructed(PlainMounts, MaxTermCalls)
    /\ [][NextTerm]_vars
    /\ WorkerFairness
    /\ CallerFairness

\* The non-blocking calls.  Only the caller thread is taken to run: the worker
\* may serve the list or stand still at any point.
NextAsync ==
    \/ \E d \in Dirs : CallMove(d)
    \/ \E r \in GuideRates : CallStartGuiding(r[1], r[2])
    \/ CInsert
    \/ WPop
    \/ \E d \in Dirs : WStartMoving(d)
    \/ WStartGuiding
    \/ WContinueGuiding

SpecAsync ==
    /\ InitConstructed(PlainMounts, MaxAsyncCalls)
    /\ [][NextAsync]_vars
    /\ WF_vars(CInsert)

\* Slews and look-ups with every other call in between, on a mount that reads
\* back one hour and one degree more than its position.
OffsetMounts == Mounts({FALSE}, {1})

NextCorr ==
    \/ CallSlewTo(90, 20)
    \/ CallLookupTelPosition
    \/ CallCalibrate
    \/ CallStartGuiding(30, -30)
    \/ CallStopGuiding
    \/ CallMove("north")
    \/ CallStopMove("north")
    \/ CallPulseCorrection(2, 50)
    \/ CInsert
    \/ CLookup
    \/ CReturn
    \/ WPop
    \/ WSlewTo
    \/ WLookupTelPosition
    \/ WCalibrate
    \/ WStartGuiding
    \/ WContinueGuiding
    \/ WStopGuiding
    \/ WStartMoving("north")
    \/ WStopMoving("north")
    \/ WPulseCorrection

SpecCorr == InitConstructed(OffsetMounts, MaxCorrCalls) /\ [][NextCorr]_vars

\* Every facade call but terminate, with both threads scheduled: the worker
\* takes its next step when it can (every driver call returns, every sleep
\* ends) and so does the caller inside a call.
ServingFairness ==
    /\ WorkerFairness
    /\ WF_vars(WSlewTo)
    /\ WF_vars(WCalibrate)
    /\ WF_vars(WStopGuiding)
    /\ WF_vars(WStopMoving("north"))
    /\ WF_vars(WPulseCorrection)

SpecServe == SpecCorr /\ ServingFairness /\ CallerFairness /\ WF_vars(CLookup)

\* Slews on mounts whose right ascension read-back is off by up to half a
\* circle (12 hours) either way.
HalfCircleMounts ==
    [raFlip : {FALSE}, deFlip : {FALSE}, biasRa : {-12, -11, -1, 0, 1, 11, 12},
     biasDe : {0}]

SpecWrap == InitConstructed(HalfCircleMounts, MaxWrapCalls) /\ [][NextSlew]_vars

\* A jog with guiding and look-ups served in between, both threads running.
NextMotion ==
    \/ CallMove("north")
    \/ CallStopMove("north")
    \/ CallStartGuiding(30, -30)
    \/ CallLookupTelPosition
    \/ CInsert
    \/ CReturn
    \/ WPop
    \/ WStartMoving("north")
    \/ WStopMoving("north")
    \/ WStartGuiding
    \/ WContinueGuiding
    \/ WLookupTelPosition

SpecMotion ==
    /\ InitConstructed(PlainMounts, MaxMotionCalls)
    /\ [][NextMotion]_vars
    /\ WorkerFairness
    /\ WF_vars(WStopMoving("north"))
    /\ CallerFairness

\* Calibration next to guiding and pulse corrections, on mounts of either
\* wiring, with the clock running.
NextMapping ==
    \/ CallCalibrate
    \/ \E r \in GuideRates : CallStartGuiding(r[1], r[2])
    \/ CallPulseCorrection(3, 50)
    \/ CInsert
    \/ CReturn
    \/ WPop
    \/ WCalibrate
    \/ WStartGuiding
    \/ WContinueGuiding
    \/ WPulseCorrection
    \/ Tick

SpecMapping == InitConstructed(WiredMounts, MaxMapCalls) /\ [][NextMapping]_vars

\* Calibration after calibration and pulse corrections to the south, long
\* enough for the mount to come to the end of its travel.
NextRecal ==
    \/ CallCalibrate
    \/ CallPulseCorrection(1, 50)
    \/ CInsert
    \/ CReturn
    \/ WPop
    \/ WCalibrate
    \/ WPulseCorrection

SpecRecal == InitConstructed(WiredMounts, MaxRecalCalls) /\ [][NextRecal]_vars

\* Look-ups, alone and after a slew, on a mount that may still be in motion,
\* with a jog going on; both threads scheduled.
NextLookup ==
    \/ CallLookupTelPosition
    \/ CallSlewTo(90, 4)
    \/ CallMove("north")
    \/ CInsert
    \/ CLookup
    \/ CReturn
    \/ WPop
    \/ WSlewTo
    \/ WLookupTelPosition
    \/ WStartMoving("north")
    \/ MountMoves

SpecLookup ==
    /\ InitConstructed(PlainMounts, MaxLookupCalls)
    /\ [][NextLookup]_vars
    /\ WorkerFairness
    /\ WF_vars(WSlewTo)
    /\ CallerFairness
    /\ WF_vars(CLookup)

\* Driver calls that may raise in steady state, under calibrations, look-ups,
\* pulse corrections, a jog and terminate.
NextFault ==
    \/ CallCalibrate
    \/ CallLookupTelPosition
    \/ CallPulseCorrection(2, 50)
    \/ CallMove("north")
    \/ CallTerminate
    \/ CInsert
    \/ CReturn
    \/ CJoin
    \/ WPop
    \/ WCalibrate
    \/ WLookupTelPosition
    \/ WPulseCorrection
    \/ WStartMoving("north")
    \/ WTerminate
    \/ WDriverError

SpecFault == InitConstructed(PlainMounts, MaxFaultCalls) /\ [][NextFault]_vars

\* Two threads calling pulse_correction on the same facade, the first of them
\* also looking up the position.
NextPair ==
    \/ CallPulseCorrection(2, 50)
    \/ CallLookupTelPosition
    \/ GuiCallPulseCorrection(0, 200)
    \/ CInsert
    \/ CReturn
    \/ GuiInsert
    \/ GuiReturn
    \/ WPop
    \/ WPulseCorrection
    \/ WLookupTelPosition

SpecPair == InitConstructed(PlainMounts, MaxPairCalls) /\ [][NextPair]_vars

\* Every facade call, with one value of each argument.
Next ==
    \/ CallCalibrate
    \/ CallSlewTo(90, 20)
    \/ CallLookupTelPosition
    \/ CallStartGuiding(30, -30)
    \/ CallStopGuiding
    \/ CallMove("north")
    \/ CallStopMove("north")
    \/ CallPulseCorrection(2, 50)
    \/ CallTerminate
    \/ CInsert
    \/ CLookup
    \/ CReturn
    \/ CJoin
    \/ WPop
    \/ WSlewTo
    \/ WLookupTelPosition
    \/ WCalibrate
    \/ WStartGuiding
    \/ WContinueGuiding
    \/ WStopGuiding
    \/ WStartMoving("north")
    \/ WStopMoving("north")
    \/ WPulseCorrection
    \/ WTerminate
    \/ Tick

Spec == InitConstructed(PlainMounts, MaxCalls) /\ [][Next]_vars

(***************************************************************************)
(* Properties.                                                             *)
(***************************************************************************)
InList(name) == Count(instructions, name) > 0

\* The instruction is in the list or in execution.
Alive(name) == InList(name) \/ (wpc = "exec" /\ cur = name)

Returned(op) == cpc = "idle" /\ obs.h1 = op

\* C1: after every sequence of start_guiding / stop_guiding pairs, once the
\* stop_guiding of a pair has returned, no 'continue guiding' (and no 'start
\* guiding' that would seed one) is in the list or in execution.
C1_NoContinueGuidingAfterPairs ==
    (Returned("stop_guiding") /\ obs.hist = "pairs")
        => ~Alive(CONTINUE_GUIDING) /\ ~Alive(START_GUIDING)

\* Two pairs have returned, and the guiding chain had run in between.
C1_Witness ==
    /\ Returned("stop_guiding") /\ obs.hist = "pairs"
    /\ calls = MaxGuideCalls - 4
    /\ obs.glog.ran

\* stop_move_d has returned and no move_d was called since.
StopMoveReturned(d) ==
    /\ obs.jog[d].placed
    /\ ~(call.op = "stop_move" /\ call.a = d)

\* C2: when stop_move_X returns, no 'start moving X' is left in the list or in
\* execution, whatever the number of move_X calls before it.
C2_StopMoveEndsMotion ==
    \A d \in Dirs : StopMoveReturned(d) => ~Alive(StartMoving(d))

\* C3: after a single move_X followed by stop_move_X, the worker issues at most
\* one jog pulse toward X after the stop instruction was put into the list, and
\* none is left to issue another when stop_move_X has returned.
C3_AtMostOnePulseAfterStop ==
    \A d \in Dirs :
        ~obs.jog[d].dup =>
            /\ obs.jog[d].after <= 1
            /\ StopMoveReturned(d) => ~Alive(StartMoving(d))

\* The one pulse does happen: issued after the stop was put into the list.
C3_Witness ==
    \E d \in Dirs :
        /\ ~obs.jog[d].dup
        /\ StopMoveReturned(d)
        /\ obs.jog[d].after = 1

\* C4: with a single caller thread, a blocking call returns only after the
\* worker has executed the instruction that this call put into the list: an
\* instruction of a kind with a 'finished' field (and the 'slew to' of slew_to)
\* is pending only while the call that submitted it is still in progress.
C4_BlockingCallWaitsForItsInstruction ==
    \A k \in ServedNames :
        obs.pending[k] =>
            /\ cpc # "idle"
            /\ call.instr = k \/ (call.op = "slew_to" /\ k = SLEW)

\* slew_to returns after a look-up call had already left the look-up's
\* 'finished' field True.
C4_Witness == Returned("slew_to") /\ obs.h2 = "lookup_tel_position"

\* lookup_tel_position has returned, and the call before it was slew_to.
LookedUpAfterSlew == Returned("lookup_tel_position") /\ obs.h2 = "slew_to"

\* C5 as stated: slew_to(ra, de) followed by lookup_tel_position() returns
\* exactly (ra, de), for every target and every read-back bias.
C5_LookupReturnsTarget ==
    LookedUpAfterSlew => result = obs.target

\* C5 as amended: the declination returned is de; the right ascension returned
\* is ra up to a whole number of full circles, and is ra itself when ra minus
\* the raw position looked up lies in [-pi, pi).
C5_LookupReturnsTargetModuloCircle ==
    LookedUpAfterSlew =>
        /\ result.de = obs.target.de
        /\ (result.ra - obs.target.ra) % (2 * PI) = 0
        /\ (-PI <= obs.target.ra - fields.ra /\ obs.target.ra - fields.ra < PI)
               => result.ra = obs.target.ra

\* A biased mount on which the corrected look-up returns the target itself.
C5_Witness ==
    /\ LookedUpAfterSlew
    /\ mount.biasRa = 1 /\ mount.biasDe = 1
    /\ result = obs.target

\* The last 'calibrate' started from the default mapping and read a smaller
\* right ascension after its east test pulse than before it.
CalibratedRaDecreased ==
    /\ obs.cal.ran
    /\ obs.cal.before = DefaultDirection
    /\ obs.cal.ra_end < obs.cal.ra_begin

\* C6 as stated: then east and west are swapped and north and south are as
\* before.
C6_SwapsEastWestOnly ==
    CalibratedRaDecreased =>
        /\ direction.east = 3 /\ direction.west = 2
        /\ direction.north = 0 /\ direction.south = 1

\* C6 as amended: then east and west are swapped; north and south are as
\* before unless the declination read after the north test pulse is smaller
\* than before it, and swapped if it is.
C6_SwapsEastWest ==
    CalibratedRaDecreased =>
        /\ direction.east = 3 /\ direction.west = 2
        /\ IF obs.cal.de_end < obs.cal.de_begin
           THEN direction.north = 1 /\ direction.south = 0
           ELSE direction.north = 0 /\ direction.south = 1

\* calibrate() has returned on a mount reversed in right ascension only.
C6_Witness ==
    /\ Returned("calibrate")
    /\ CalibratedRaDecreased
    /\ mount.raFlip /\ ~mount.deFlip
    /\ direction = [north |-> 0, south |-> 1, east |-> 3, west |-> 2]

\* C7: calibrate() called twice in a row leaves the mapping that the first
\* call left.
C7_CalibrateIdempotent ==
    (Returned("calibrate") /\ obs.h2 = "calibrate") => obs.d1 = obs.d2

\* The second of two calls has returned on a mount reversed on both axes.
C7_Witness ==
    /\ Returned("calibrate") /\ obs.h2 = "calibrate"
    /\ mount.raFlip /\ mount.deFlip
    /\ direction = [north |-> 1, south |-> 0, east |-> 3, west |-> 2]

\* The code the Direction Mapping assigns to logical direction 0..3.
MappedCode(index) ==
    CASE index = 0 -> direction.north
      [] index = 1 -> direction.south
      [] index = 2 -> direction.east
      [] index = 3 -> direction.west

\* The code of the opposite logical direction of the default mapping.
ReversedCode(index) ==
    CASE index = 0 -> 1 [] index = 1 -> 0 [] index = 2 -> 3 [] index = 3 -> 2

\* The last 'calibrate' found the axis of logical direction 0..3 reversed.
FoundReversed(index) ==
    /\ obs.cal.ran
    /\ IF index \in {0, 1} THEN obs.cal.de_end < obs.cal.de_begin
       ELSE obs.cal.ra_end < obs.cal.ra_begin

\* C9: when pulse_correction(direction, pulse_length) returns, the worker has
\* issued exactly one driver pulse for it, with the code the Direction Mapping
\* assigns to the direction and with duration pulse_length, and has marked the
\* instruction finished; after a calibrate() that found the axis reversed this
\* is the code of the opposite direction.
C9_PulseCorrectionUsesMapping ==
    Returned("pulse_correction") =>
        /\ obs.pc = <<[code |-> MappedCode(obs.correction.index),
                       duration |-> obs.correction.pulse_length]>>
        /\ finished[PULSE_CORRECTION]
        /\ FoundReversed(obs.correction.index)
              => obs.pc[1].code = ReversedCode(obs.correction.index)

\* A correction to the east after a calibrate() that found east and west
\* reversed: pulsed with code 3.
C9_Witness ==
    /\ Returned("pulse_correction")
    /\ obs.correction.index = 2
    /\ FoundReversed(2)
    /\ obs.pc = <<[code |-> 3, duration |-> obs.correction.pulse_length]>>

\* Pulses of the last 'continue guiding' on one axis.
GuidePulsesOn(axis) ==
    Cardinality({i \in 1..Len(obs.glog.pulses) : PulseAxis(obs.glog.pulses[i]) = axis})

\* Magnitude of the displacement predicted (rate * elapsed time) and measured
\* (position read - start position) in the last 'continue guiding', in radians.
PredictedRa == Abs(obs.glog.g.rate_ra * (obs.glog.time - obs.glog.g.start_time))

PredictedDe == Abs(obs.glog.g.rate_de * (obs.glog.time - obs.glog.g.start_time))

MeasuredRa ==
    Abs(Radians((obs.glog.tel.ra + mount.biasRa) * 15) - obs.glog.g.start_ra)

MeasuredDe == Abs(Radians(obs.glog.tel.de + mount.biasDe) - obs.glog.g.start_de)

\* C8: a 'continue guiding' iteration issues at most one pulse per axis, and
\* one on an axis only if the measured displacement is strictly smaller in
\* magnitude than the predicted one.
C8_GuidingPulsesOnlyWhenBehind ==
    obs.glog.ran =>
        /\ GuidePulsesOn("ra") <= 1
        /\ GuidePulsesOn("de") <= 1
        /\ GuidePulsesOn("ra") = 1 => MeasuredRa < PredictedRa
        /\ GuidePulsesOn("de") = 1 => MeasuredDe < PredictedDe

\* An iteration that pulsed on both axes, after an earlier pulse had already
\* moved the mount.
C8_Witness ==
    /\ obs.glog.ran
    /\ GuidePulsesOn("ra") = 1 /\ GuidePulsesOn("de") = 1
    /\ MeasuredRa > 0

FacadeDone == fpc \in {"raised_error", "raised_timeout", "constructed"}

\* C10 as stated: whenever the worker's initialization has failed, constructing
\* the facade raises the worker's error text; the timeout exception is raised
\* only when, at that moment, the worker has neither initialized nor recorded
\* an error.
C10_ErrorAlwaysSurfaced ==
    /\ (FacadeDone /\ wpc = "failed" /\ obs.atRaise.error # "")
          => (fpc = "raised_error" /\ obs.raised = initialization_error)
    /\ fpc = "raised_timeout"
          => (~obs.atRaise.initialized /\ obs.atRaise.error = "")

\* What does hold of the outcome: an error exception carries the worker's
\* non-empty error text; the timeout exception is raised only when the worker
\* has not initialized at that moment and had recorded no error when the facade
\* last read the error text; construction never succeeds with a failed worker.
ConstructionOutcome ==
    /\ fpc = "raised_error"
          => /\ wpc = "failed"
             /\ obs.raised = initialization_error
             /\ obs.raised \in InitializationErrors
    /\ fpc = "raised_timeout"
          => /\ obs.raised = TimeoutMessage
             /\ ~obs.atRaise.initialized
             /\ obs.polled = ""
    /\ fpc = "constructed" => (initialized /\ wpc # "failed")

\* C11: constructing the facade always terminates.  The polling loop is left
\* after at most polling_time_out_count polls, the constructor then returns
\* (only with the worker initialized) or has raised, whatever the worker does,
\* also when it never sets 'initialized' and never records an error.
C11_ConstructionTerminates ==
    /\ [](polls <= PollingTimeOutCount)
    /\ [](fpc = "constructed" => initialized)
    /\ <>FacadeDone

\* The constructor has given up on a worker that is still initializing, after
\* the full count of polls.
C11_Witness ==
    /\ fpc = "raised_timeout"
    /\ wpc = "start"
    /\ polls = PollingTimeOutCount

\* C12: a terminate() call leads to the worker having executed 'terminate' and
\* left its loop and to the call having returned, also with 'continue guiding'
\* and 'start moving X' repeating in the list; and once the worker has left
\* its loop it executes no instruction and moves the mount no more.
C12_TerminateEnds ==
    /\ (call.op = "terminate") ~> (Returned("terminate") /\ wpc = "ended")
    /\ [][wpc = "ended" =>
              /\ wpc' = "ended" /\ cur' = "none"
              /\ tel' = tel /\ direction' = direction
              /\ guide' = guide /\ look' = look]_vars

\* terminate() has returned with both repeating instructions left in the list.
C12_Witness ==
    /\ Returned("terminate") /\ wpc = "ended"
    /\ InList(CONTINUE_GUIDING) /\ InList(StartMoving("north"))

NonBlockingOps == {"move", "start_guiding"}

\* C13: move_north/south/east/west and start_guiding return without waiting
\* for the worker.  Such a call in progress always comes to return, with no
\* step of the worker assumed; and its only step after the fields are filled
\* puts its one instruction at index 0 of the list and returns, leaving the
\* worker's state and the mount as they are.
C13_NonBlockingCallsReturn ==
    /\ \A op \in NonBlockingOps : (call.op = op) ~> (cpc = "idle")
    /\ [][(call.op \in NonBlockingOps /\ cpc' # cpc) =>
              /\ cpc' = "idle"
              /\ instructions' = <<call.instr>> \o instructions
              /\ UNCHANGED <<workerVars, finished, mountVars>>]_vars

\* move_north and then start_guiding have returned and the worker has not
\* served either instruction.
C13_Witness ==
    /\ Returned("start_guiding") /\ obs.h2 = "move"
    /\ instructions = <<START_GUIDING, StartMoving("north")>>
    /\ wpc = "loop"
    /\ guiding_active

\* C14: whenever no facade call is in progress and guiding_active is False,
\* neither 'start guiding' nor 'continue guiding' is in the list or in
\* execution, after any sequence of start_guiding and stop_guiding calls.
C14_GuidingActiveTellsGuiding ==
    (cpc = "idle" /\ ~guiding_active)
        => ~Alive(CONTINUE_GUIDING) /\ ~Alive(START_GUIDING)

NoCorrection == [ra |-> 0, de |-> 0]

\* C15: lookup_tel_position returns the position looked up plus the Readout
\* Correction; the correction is zero at first, is assigned only by the step
\* in which slew_to returns, and no step of another call or of the worker
\* changes it.
C15_CorrectionAppliedAndKept ==
    /\ readout_correction = NoCorrection
    /\ [](Returned("lookup_tel_position") =>
              result = [ra |-> fields.ra + readout_correction.ra,
                        de |-> fields.de + readout_correction.de])
    /\ [][readout_correction' # readout_correction =>
              (call.op = "slew_to" /\ cpc = "wait" /\ cpc' = "idle")]_vars

\* A look-up has returned a corrected position, with calibrate() called
\* between the slew that measured the correction and the look-up.
C15_Witness ==
    /\ Returned("lookup_tel_position") /\ obs.h2 = "calibrate"
    /\ readout_correction = [ra |-> -30, de |-> -2]
    /\ result # [ra |-> fields.ra, de |-> fields.de]

\* Desired minus measured right ascension of the last slew_to.
SlewDifference == obs.target.ra - fields.ra

\* C16 as stated: after slew_to the RA Readout Correction is desired minus
\* measured modulo a full circle, and lies in (-pi, pi], also when desired and
\* measured differ by exactly half a circle.
C16_CorrectionInLeftOpenInterval ==
    Returned("slew_to") =>
        /\ (readout_correction.ra - SlewDifference) % (2 * PI) = 0
        /\ -PI < readout_correction.ra /\ readout_correction.ra <= PI

\* C16 as amended: it is desired minus measured modulo a full circle and lies
\* in [-pi, pi); a difference of exactly half a circle gives -pi.
C16_CorrectionInRightOpenInterval ==
    Returned("slew_to") =>
        /\ (readout_correction.ra - SlewDifference) % (2 * PI) = 0
        /\ -PI <= readout_correction.ra /\ readout_correction.ra < PI
        /\ (SlewDifference % (2 * PI) = PI) => readout_correction.ra = -PI

\* slew_to has returned with desired half a circle ahead of measured.
C16_Witness ==
    /\ Returned("slew_to")
    /\ SlewDifference = PI
    /\ readout_correction.ra = -PI

\* move_d has put its instruction into the list and no 'stop moving d' has
\* been executed since.
MotionRequested(d) ==
    /\ obs.jog[d].moves >= 1
    /\ ~obs.jog[d].placed \/ obs.pending[StopMoving(d)]

Pulsing(d) == wpc = "exec" /\ cur = StartMoving(d)

\* C17: after move_X and until 'stop moving X' is executed, 'start moving X'
\* stays in the list or in execution, and the worker comes to issue a jog
\* pulse toward X again and again, with guiding and look-ups served in
\* between.
C17_MotionContinuesUntilStopped ==
    /\ [](\A d \in Dirs : MotionRequested(d) => Alive(StartMoving(d)))
    /\ \A d \in Dirs :
           (MotionRequested(d) /\ ~Pulsing(d))
               ~> (Pulsing(d) \/ ~MotionRequested(d))

\* The jog goes on after a guiding chain was started and a look-up was
\* served: the mount has moved north and the next pulse is being issued.
C17_Witness ==
    /\ Returned("lookup_tel_position")
    /\ MotionRequested("north") /\ Pulsing("north")
    /\ InList(CONTINUE_GUIDING)
    /\ tel.de >= 2

\* C18: the step in which the worker executes 'stop guiding' leaves no
\* 'continue guiding' in the list, however many there were.
C18_StopGuidingRemovesAll ==
    [][(wpc = "exec" /\ cur = STOP_GUIDING /\ wpc' = "loop")
           => Count(instructions', CONTINUE_GUIDING) = 0]_vars

\* The worker takes the next instruction from the list.
PopStep == wpc = "loop" /\ wpc' = "exec"

\* A blocking call has put its instruction at index 0 and the instruction is
\* still in the list.
WaitingAtHead ==
    /\ cpc = "wait"
    /\ call.instr \in HeadWaitedNames
    /\ InList(call.instr)

\* The instructions between the waited-for instruction and the end of the list.
BehindWaited ==
    LET at == CHOOSE i \in 1..Len(instructions) : instructions[i] = call.instr
    IN  Len(instructions) - at

StopWaitingAtTail(d) ==
    /\ cpc = "wait"
    /\ call.instr = StopMoving(d)
    /\ InList(StopMoving(d))

\* The worker completes the execution of 'stop moving d'.
StopMovingStep(d) == wpc = "exec" /\ cur = StopMoving(d) /\ wpc' = "loop"

C21_SlewBeforeItsLookup ==
    (call.op = "slew_to" /\ obs.pending[SLEW]) =>
        /\ ~(wpc = "exec" /\ cur = LOOKUP)
        /\ look = NoLook
        /\ cpc = "wait" => ~finished[LOOKUP]

\* slew_to has returned with both repeating instructions in the list, and its
\* correction was taken at the slewed position.
C21_Witness ==
    /\ Returned("slew_to")
    /\ InList(CONTINUE_GUIDING) /\ InList(StartMoving("north"))
    /\ readout_correction = [ra |-> -30, de |-> -2]


\* C22: a failed initialization stores a non-empty message, leaves
\* 'initialized' False and ends the worker before its main loop, so that it
\* executes no instruction and drives the mount no more; 'initialized' is True
\* only while the message is empty, and it never goes back to False.
C22_FailedInitializationEndsWorker ==
    /\ [](/\ initialized => initialization_error = ""
          /\ initialization_error # "" => wpc = "failed"
          /\ wpc = "failed" => /\ initialization_error # ""
                               /\ ~initialized
                               /\ cur = "none")
    /\ [][/\ initialized => initialized'
          /\ wpc = "failed" => /\ wpc' = "failed"
                               /\ tel' = tel
                               /\ instructions' = instructions
                               /\ initialization_error' = initialization_error]_vars

\* The initialization failed and the constructor has raised the stored message.
C22_Witness ==
    /\ wpc = "failed"
    /\ fpc = "raised_error"
    /\ obs.raised = initialization_error
    /\ initialization_error \in InitializationErrors


\* The step in which the worker executes instruction k.
Executing(k) == wpc = "exec" /\ cur = k /\ wpc' # "exec"

\* The driver codes the Direction Mapping assigns to the directions guiding g
\* corrects in.
GuidingCodes(g) ==
    {IF Sign(g.rate_ra) > 0 THEN direction.east ELSE direction.west,
     IF Sign(g.rate_de) > 0 THEN direction.north ELSE direction.south}

\* C23: once a calibrate() has been executed, every pulse is issued with the
\* code the Direction Mapping assigns to its direction: the pulses of 'continue
\* guiding' (also of guiding started before the calibration) and of 'pulse
\* correction'.
C23_PulsesUseCalibratedMapping ==
    [][(obs.cal.ran /\ call.op # "calibrate") =>
         /\ Executing(CONTINUE_GUIDING) =>
                \A i \in 1..Len(obs'.glog.pulses) :
                    obs'.glog.pulses[i] \in GuidingCodes(guide)
         /\ Executing(PULSE_CORRECTION) =>
                tel' = MountAfterPulse(tel, direction.west, fields.pulse_length)]_vars


\* The kinds a facade call waits for before it returns or queues another
\* instruction: those with a 'finished' field, 'slew to' (followed by a look-up
\* in the same call) and 'terminate' (followed by join).
AwaitedNames == FinishedNames \cup {SLEW, TERMINATE}

\* The kinds that are queued without waiting and the one the worker seeds.
RepeatingNames == StartMovingNames \cup {START_GUIDING, CONTINUE_GUIDING}

C25_DriverOnlyFromWorkerOneAtATime ==
    /\ [](wpc = "exec" <=> cur # "none")
    /\ [][/\ (tel' # tel \/ look' # look) =>
                /\ wpc = "exec" /\ cur # "none"
                /\ cpc' = cpc /\ call' = call /\ fpc' = fpc
          /\ cur' # cur => (cur = "none" \/ cur' = "none")]_vars

\* The worker is reading the position for the look-up of a slew_to call the
\* caller is waiting in, with guiding and a jog going on.
C25_Witness ==
    /\ wpc = "exec" /\ cur = LOOKUP /\ look # NoLook
    /\ cpc = "wait" /\ call.op = "slew_to"
    /\ InList(CONTINUE_GUIDING) /\ InList(StartMoving("north"))


\* C26: the step that executes 'start guiding' leaves the mount where it is,
\* records the time, the position read from the driver and the two rates,
\* takes from the Direction Mapping of that moment the code of east for a
\* positive rate_ra and of west otherwise, of north for a positive rate_de and
\* of south otherwise, and puts exactly one 'continue guiding' into the list.
C26_StartGuidingRecordsAndSeeds ==
    [][Executing(START_GUIDING) =>
         /\ tel' = tel
         /\ guide'.start_time = now
         /\ guide'.start_ra = RaOfRect(RightAscension(tel))
         /\ guide'.start_de = Radians(Declination(tel))
         /\ guide'.rate_ra = fields.rate_ra /\ guide'.rate_de = fields.rate_de
         /\ guide'.direction_ra =
                IF fields.rate_ra > 0 THEN direction.east ELSE direction.west
         /\ guide'.direction_de =
                IF fields.rate_de > 0 THEN direction.north ELSE direction.south
         /\ Len(instructions') = Len(instructions) + 1
         /\ Count(instructions', CONTINUE_GUIDING)
                = Count(instructions, CONTINUE_GUIDING) + 1
         /\ direction' = direction]_vars

\* Guiding was started with a zero rate in declination after a calibration that
\* found both axes reversed: west is code 3 -> east 3/west 2, south is code 0.
C26_Witness ==
    /\ obs.cal.ran
    /\ direction = [north |-> 1, south |-> 0, east |-> 3, west |-> 2]
    /\ guide.rate_ra = 30 /\ guide.rate_de = 0
    /\ guide.direction_ra = 3 /\ guide.direction_de = 0
    /\ InList(CONTINUE_GUIDING)


\* Number of 'continue guiding' instructions in the list or in execution.
GuidingChains ==
    Count(instructions, CONTINUE_GUIDING) + (IF cur = CONTINUE_GUIDING THEN 1 ELSE 0)

GuidingStep == wpc = "exec" /\ cur = CONTINUE_GUIDING

\* C27: guiding goes on until 'stop guiding' is executed: a 'continue guiding'
\* comes into being only by the execution of 'start guiding', every executed
\* 'continue guiding' is back in the list afterwards, only the execution of
\* 'stop guiding' takes one away, and while one is there the worker comes to
\* execute it again and again, with look-ups, slews, jogs, pulse corrections
\* and calibrations served in between.
C27_GuidingContinuesUntilStopped ==
    /\ [][/\ GuidingChains' < GuidingChains => Executing(STOP_GUIDING)
          /\ GuidingChains' > GuidingChains => Executing(START_GUIDING)
          /\ Executing(CONTINUE_GUIDING) => InList(CONTINUE_GUIDING)']_vars
    /\ (GuidingChains > 0 /\ ~GuidingStep)
           ~> (GuidingStep \/ GuidingChains = 0 \/ wpc = "ended")

\* Guiding is executed once more after a slew with its look-up was served and
\* with a jog going on.
C27_Witness ==
    /\ GuidingStep
    /\ obs.glog.ran
    /\ Returned("slew_to")
    /\ InList(StartMoving("north"))


\* A blocking call has queued the instruction it waits for, and the worker has
\* not popped it.
WaitingInList == cpc = "wait" /\ InList(call.instr)

\* C28: repeating instructions do not starve a blocking call.  While the
\* instruction of a blocking call waits in the list, the worker pops another
\* instruction only as long as fewer have been popped than the list held when
\* the instruction was put in (none, when it was appended at the end); and
\* every blocking call in progress comes to return.
C28_BlockingCallNotStarved ==
    /\ [][(PopStep /\ WaitingInList /\ cur' # call.instr)
              => (call.instr \in HeadWaitedNames /\ obs.older.left > 0)]_vars
    /\ (cpc # "idle" /\ call.op \notin NonBlockingOps) ~> (cpc = "idle")

\* The look-up of lookup_tel_position() is popped after the two repeating
\* instructions that were in the list at its submission, both of which are back
\* in the list.
C28_Witness ==
    /\ wpc = "exec" /\ cur = LOOKUP
    /\ cpc = "wait" /\ call.op = "lookup_tel_position"
    /\ obs.older = [at |-> 2, left |-> 0]
    /\ InList(CONTINUE_GUIDING) /\ InList(StartMoving("north"))


\* C29: guiding started with a rate of zero on an axis never pulses on that
\* axis, wherever the mount is found and however much time has passed.
C29_ZeroRateNeverPulses ==
    obs.glog.ran =>
        /\ obs.glog.g.rate_ra = 0 => GuidePulsesOn("ra") = 0
        /\ obs.glog.g.rate_de = 0 => GuidePulsesOn("de") = 0

\* An iteration of guiding with rate_ra = 0, a second or more after the start
\* and with the mount found away from the start position in right ascension:
\* it has pulsed in declination only.
C29_Witness ==
    /\ obs.glog.ran
    /\ obs.glog.g.rate_ra = 0 /\ obs.glog.g.rate_de # 0
    /\ obs.glog.time > obs.glog.g.start_time
    /\ MeasuredRa > 0
    /\ GuidePulsesOn("ra") = 0 /\ GuidePulsesOn("de") = 1


\* C30: after each calibrate() the Direction Mapping reflects the measurements
\* of that call only: east and west are reversed if and only if the right
\* ascension read after the east test pulse of this call was lower than before
\* it, north and south if and only if the declination read after the north
\* test pulse of this call was lower than before it.
C30_MappingFromThisCalibrationOnly ==
    Returned("calibrate") =>
        /\ (direction.east = 3 /\ direction.west = 2)
               <=> obs.cal.ra_end < obs.cal.ra_begin
        /\ (direction.north = 1 /\ direction.south = 0)
               <=> obs.cal.de_end < obs.cal.de_begin
        /\ (direction.east = 2 /\ direction.west = 3)
               <=> ~(obs.cal.ra_end < obs.cal.ra_begin)
        /\ (direction.north = 0 /\ direction.south = 1)
               <=> ~(obs.cal.de_end < obs.cal.de_begin)


\* The position the driver reports now.
Reading == [rect |-> RightAscension(tel), decl |-> Declination(tel)]

\* The step in which 'lookup tel position' leaves its loop and marks itself
\* finished.
LookupFinishes == Executing(LOOKUP) /\ finished'[LOOKUP]

\* C31: 'lookup tel position' marks itself finished only when the position
\* just read differs from the sample taken before by no more than the lookup
\* precision in right ascension and in declination; it has taken at least one
\* sample by then, every sample is a position read from the driver, and the
\* position it reports is that last sample, never the sentinel 25 h / 91 deg.
C31_LookupReportsSettledReading ==
    [][/\ LookupFinishes =>
              /\ look # NoLook
              /\ look.rect # SentinelRect /\ look.decl # SentinelDecl
              /\ Abs(Reading.rect - look.rect) <= LookupPrecision
              /\ Abs(Reading.decl - look.decl) <= LookupPrecision
              /\ fields'.ra = RaOfRect(look.rect)
              /\ fields'.de = Radians(look.decl)
       /\ (look' # look /\ ~LookupFinishes) =>
              /\ Executing(LOOKUP) \/ (wpc = "exec" /\ cur = LOOKUP)
              /\ look' = Reading]_vars

\* A look-up on a mount in motion: the first sample was taken, the mount has
\* moved on, and the worker is about to sample again.
C31_Witness ==
    /\ wpc = "exec" /\ cur = LOOKUP
    /\ look # NoLook
    /\ look # Reading
    /\ InList(StartMoving("north"))


\* The worker is inside 'lookup tel position' and the mount is not where the
\* last sample found it.
LookupSeesMotion ==
    /\ wpc = "exec" /\ cur = LOOKUP
    /\ \/ Abs(Reading.rect - look.rect) > LookupPrecision
       \/ Abs(Reading.decl - look.decl) > LookupPrecision

\* C32: the mount comes to rest, so every look-up in progress finishes and
\* every call that waits for one returns; and as long as the mount is found
\* away from the last sample, the step of the worker is another sample: the
\* look-up is not marked finished and no other instruction is popped or
\* executed.
C32_LookupEndsWhenMountSettles ==
    /\ (Alive(LOOKUP) /\ ~finished[LOOKUP]) ~> finished[LOOKUP]
    /\ (cpc = "wait" /\ call.instr = LOOKUP) ~> (cpc = "idle")
    /\ [][(LookupSeesMotion /\ workerVars' # workerVars) =>
              /\ wpc' = "exec" /\ cur' = LOOKUP
              /\ look' = Reading
              /\ ~finished'[LOOKUP]
              /\ UNCHANGED <<instructions, fields, tel>>]_vars

\* A look-up that has sampled three times or more: the mount was found two
\* grid steps away from where the jog and the slew had left it.
C32_Witness ==
    /\ wpc = "exec" /\ cur = LOOKUP
    /\ look # NoLook
    /\ tel.ra + tel.de >= look.rect - mount.biasRa + look.decl - mount.biasDe + 2
    /\ cpc = "wait" /\ call.instr = LOOKUP


\* The worker thread has ended by an exception of the driver.
Crashed == wpc = "crashed"

\* A blocking call is polling a 'finished' field that is not set.
Polling == cpc = "wait" /\ ~finished[call.instr]

\* C33: a driver error in steady state ends the worker thread with the
\* instruction not marked finished; from then on nothing is marked finished,
\* nothing is popped or executed and the mount is not driven, so a blocking
\* call that polls for that instruction or for a later one goes on polling
\* for ever.
C33_DriverErrorEndsWorker ==
    /\ [](Crashed => /\ cur \in DriverNames
                     /\ cur \in FinishedNames => ~finished[cur]
                     /\ (cpc = "wait" /\ Alive(call.instr)) => Polling)
    /\ [][(wpc = "exec" /\ wpc' = "crashed") =>
              UNCHANGED <<instructions, finished, fields>>]_vars
    /\ [][Crashed =>
              /\ Crashed'
              /\ UNCHANGED <<cur, tel, look, direction, guide>>
              /\ \A k \in FinishedNames : finished'[k] => finished[k]
              /\ \A k \in AwaitedNames \cup RepeatingNames :
                     Count(instructions', k) >= Count(instructions, k)
              /\ Polling => Polling']_vars

\* The driver raised in the pulse of a jog; the caller has since called
\* lookup_tel_position(), whose instruction stays in the list, and polls.
C33_Witness ==
    /\ Crashed /\ cur = StartMoving("north")
    /\ call.op = "lookup_tel_position" /\ Polling
    /\ InList(LOOKUP)


\* The step in which the second thread's call returns.
GuiReturns == gui.pc = "wait" /\ gui'.pc = "returned"

\* C34 as stated: with two threads in blocking calls of the same kind, a call
\* returns only after the worker has executed the instance that this call put
\* into the list: it does not return while its own instance is in the list.
C34_ReturnsAfterOwnInstance ==
    [][GuiReturns => (obs.gsince /\ obs.gown = 0)]_vars

\* C34 as amended: a call returns only after the worker has executed an
\* instance of that kind since the call reset 'finished'; this may be the
\* instance of the other thread.
C34_ReturnsAfterSomeInstance ==
    [][GuiReturns => obs.gsince]_vars

\* The second thread's call has returned on the execution of the other
\* thread's instance, its own instance still in the list.
C34_Witness ==
    /\ gui.pc = "returned"
    /\ obs.gown > 0
    /\ InList(PULSE_CORRECTION)
    /\ obs.gsince


\* C35: the Direction Mapping is always a permutation of the driver codes
\* that keeps the axes apart: north and south are 0 and 1 in some order, east
\* and west are 2 and 3 in some order.
C35_MappingIsAxisPermutation ==
    /\ {direction.north, direction.south} = {0, 1}
    /\ direction.north # direction.south
    /\ {direction.east, direction.west} = {2, 3}
    /\ direction.east # direction.west

\* Two calibrations in a row on a mount reversed in both axes.
C35_Witness ==
    /\ Returned("calibrate") /\ obs.h2 = "calibrate"
    /\ mount.raFlip /\ mount.deFlip
    /\ direction = [north |-> 1, south |-> 0, east |-> 3, west |-> 2]


\* The list without its instructions of one kind, in order.
Others(q, name) ==
    LET Other(x) == x # name
    IN  SelectSeq(q, Other)

\* C36: executing 'stop guiding' or 'stop moving X' removes instructions of
\* the targeted kind only: the other instructions of the list are the same
\* after the step, and in the same order.
C36_StopRemovesTargetedKindOnly ==
    [][/\ Executing(STOP_GUIDING) =>
              /\ Others(instructions', CONTINUE_GUIDING)
                     = Others(instructions, CONTINUE_GUIDING)
              /\ Len(instructions') <= Len(instructions)
       /\ \A d \in Dirs :
              Executing(StopMoving(d)) =>
                  /\ Others(instructions', StartMoving(d))
                         = Others(instructions, StartMoving(d))
                  /\ Len(instructions') <= Len(instructions)]_vars

\* 'stop moving north' has been executed with 'continue guiding' in the list:
\* the jog is gone, the guiding instruction is still there.
C36_Witness ==
    /\ cpc = "wait" /\ call.instr = StopMoving("north")
    /\ finished[StopMoving("north")]
    /\ ~InList(StartMoving("north"))
    /\ InList(CONTINUE_GUIDING)
    /\ obs.jog["north"].moves >= 1

=============================================================================
